---- MODULE Spec2Model ----
(***************************************************************************)
(* Model of custom_components/goodwe/validators.py: the SensorValidator    *)
(* that filters the readings of a GoodWe inverter, and its ValidationStats.*)
(*                                                                         *)
(* Numbers.  A numeric reading is an exact multiple of 1/SCALE, held as    *)
(* the integer number of such steps (so 65535 is 65535 * SCALE).  All      *)
(* comparisons of the source are done exactly on these rationals; the      *)
(* rounding of IEEE doubles is not modelled.  int and float readings of    *)
(* the same magnitude are not told apart (Python compares them equal).     *)
(* Readings are floats or ints within the range of a double: an int beyond *)
(* it, for which math.isfinite raises an OverflowError that _is_finite     *)
(* does not catch, is outside the model.                                   *)
(*                                                                         *)
(* Values.  A reading's value is a record [kind, v]:                       *)
(*   "None"  the Python None            "str"   a text / enum state (v: id)*)
(*   "bool"  True / False (v: 1 / 0)    "num"   a finite int or float      *)
(*   "nan"   float('nan')               "inf"   +inf / -inf (v: 1 / -1)    *)
(*                                                                         *)
(* Dicts are functions with a finite domain; a dict of the batch (data,    *)
(* the returned mapping) is the sequence of its items in insertion order,  *)
(* which is the order the loop of validate_data visits them in.            *)
(***************************************************************************)
EXTENDS Integers, Sequences, FiniteSets, TLC

SCALE == 200

N(x) == x * SCALE

Abs(x) == IF x < 0 THEN -x ELSE x

Max2(a, b) == IF a >= b THEN a ELSE b

EmptyDict == [k \in {} |-> 0]

\* d[k] = val, as a new dict
DictSet(d, k, val) == (k :> val) @@ d

\* d.get(k, default)
DictGet(d, k, default) == IF k \in DOMAIN d THEN d[k] ELSE default

RECURSIVE SeqSum(_)
SeqSum(s) == IF s = << >> THEN 0 ELSE s[1] + SeqSum(Tail(s))

RECURSIVE SeqMax(_)
SeqMax(s) == IF Len(s) = 1 THEN s[1] ELSE Max2(s[1], SeqMax(Tail(s)))

RECURSIVE SeqMin(_)
SeqMin(s) == IF Len(s) = 1 THEN s[1] ELSE -Max2(-s[1], -SeqMin(Tail(s)))

\* list.pop(0)
PopFirst(s) == Tail(s)

\* list.pop(): evicts the newest entry instead
PopLast(s) == SubSeq(s, 1, Len(s) - 1)

(***************************************************************************)
(* Values                                                                  *)
(***************************************************************************)
Num(x) == [kind |-> "num", v |-> x]

NoneValue == [kind |-> "None", v |-> 0]

Str(i) == [kind |-> "str", v |-> i]

Bool(b) == [kind |-> "bool", v |-> b]

NaN == [kind |-> "nan", v |-> 0]

Inf(sign) == [kind |-> "inf", v |-> sign]

\* a type test that forgets to exclude bool (a bool is an int in Python)
IsNumericOrBool(value) == value.kind \in {"num", "nan", "inf", "bool"}

\* isinstance(value, (int, float)) and not isinstance(value, bool)
IsNumeric(value) == value.kind \in {"num", "nan", "inf"}

(***************************************************************************)
(* Rule tables                                                             *)
(***************************************************************************)
MODBUS_ERROR_VALUES == {N(65535), N(32767), N(32768), N(-32768)}

DEFAULT_RANGES ==
    [u \in {"V", "A", "W", "kWh", "VA", "var", "C", "Hz", "%", "h"} |->
        CASE u = "V"   -> <<N(0), N(1000)>>
          [] u = "A"   -> <<N(-150), N(150)>>
          [] u = "W"   -> <<N(-50000), N(50000)>>
          [] u = "kWh" -> <<N(0), N(100000)>>
          [] u = "VA"  -> <<N(-50000), N(50000)>>
          [] u = "var" -> <<N(-50000), N(50000)>>
          [] u = "C"   -> <<N(-40), N(100)>>
          [] u = "Hz"  -> <<N(45), N(65)>>
          [] u = "%"   -> <<N(0), N(100)>>
          [] u = "h"   -> <<N(0), N(1000000)>>]

SENSOR_SPECIFIC_RANGES ==
    [s \in {"vgrid", "vgrid2", "vgrid3", "vbattery1", "vpv1", "vpv2", "vpv3",
            "vpv4", "fgrid", "fgrid2", "fgrid3", "battery_soc", "e_day",
            "e_load_day"} |->
        CASE s \in {"vgrid", "vgrid2", "vgrid3"}      -> <<N(180), N(280)>>
          [] s = "vbattery1"                          -> <<N(40), N(600)>>
          [] s \in {"vpv1", "vpv2", "vpv3", "vpv4"}   -> <<N(0), N(1000)>>
          [] s \in {"fgrid", "fgrid2", "fgrid3"}      -> <<N(49), N(61)>>
          [] s = "battery_soc"                        -> <<N(0), N(100)>>
          [] s = "e_day"                              -> <<N(0), N(200)>>
          [] s = "e_load_day"                         -> <<N(0), N(500)>>]

MONOTONIC_INCREASING_SENSORS ==
    {"e_total", "e_bat_charge_total", "e_bat_discharge_total",
     "meter_e_total_exp", "meter_e_total_imp", "h_total"}

\* ValidationStats.max_recent_failures
max_recent_failures == 50

\* SensorValidator._max_history
_max_history == 10

\* the 0.01 of _is_modbus_error, in steps of 1/SCALE
ERROR_TOLERANCE == SCALE \div 100

\* the 0.1 of _validate_outlier, in steps of 1/SCALE
ZERO_MEAN_EPS == SCALE \div 10

\* outlier_sensitivity is held in halves: the default 5.0 is 10
SENS_DEN == 2

DEFAULT_SENSITIVITY == 10

(***************************************************************************)
(* Sensor ids.  The unit inference of _get_sensor_unit looks inside the id,*)
(* so each id of the model comes with its characters.                      *)
(***************************************************************************)
SensorIds == {"e_total", "h_total", "battery_soc", "vbus"}

IdChars(sensor_id) ==
    CASE sensor_id = "e_total"     -> <<"e", "_", "t", "o", "t", "a", "l">>
      [] sensor_id = "h_total"     -> <<"h", "_", "t", "o", "t", "a", "l">>
      [] sensor_id = "battery_soc" -> <<"b", "a", "t", "t", "e", "r", "y", "_", "s", "o", "c">>
      [] sensor_id = "vbus"        -> <<"v", "b", "u", "s">>

\* s.startswith(p), on character sequences
StartsWith(s, p) == Len(p) <= Len(s) /\ SubSeq(s, 1, Len(p)) = p

\* p in s, on character sequences
Contains(s, p) ==
    \E i \in 1..(Len(s) - Len(p) + 1) : SubSeq(s, i, i + Len(p) - 1) = p

\* the unit None (and the empty unit, which the code treats alike)
NoUnit == ""

InferUnit(c) ==
    IF Contains(c, <<"v", "o", "l", "t", "a", "g", "e">>) \/ StartsWith(c, <<"v">>)
    THEN "V"
    ELSE IF Contains(c, <<"c", "u", "r", "r", "e", "n", "t">>) \/ StartsWith(c, <<"i">>)
    THEN "A"
    ELSE IF Contains(c, <<"p", "o", "w", "e", "r">>) \/ StartsWith(c, <<"p">>)
    THEN "W"
    ELSE IF Contains(c, <<"e", "n", "e", "r", "g", "y">>) \/ StartsWith(c, <<"e", "_">>)
    THEN "kWh"
    ELSE IF Contains(c, <<"t", "e", "m", "p">>)
            \/ Contains(c, <<"t", "e", "m", "p", "e", "r", "a", "t", "u", "r", "e">>)
    THEN "C"
    ELSE IF Contains(c, <<"f", "r", "e", "q">>) \/ StartsWith(c, <<"f">>)
    THEN "Hz"
    ELSE IF Contains(c, <<"s", "o", "c">>) \/ Contains(c, <<"%">>)
    THEN "%"
    ELSE NoUnit

\* sensor_metadata is a dict id -> dict of attributes; None and {} are both
\* the empty dict (the code tests its truth value only)
_get_sensor_unit(sensor_id, sensor_metadata) ==
    IF sensor_metadata # EmptyDict /\ sensor_id \in DOMAIN sensor_metadata
    THEN DictGet(sensor_metadata[sensor_id], "unit", NoUnit)
    ELSE InferUnit(IdChars(sensor_id))

(***************************************************************************)
(* ValidationStats                                                         *)
(***************************************************************************)
\* a rejection reason: the message's fixed text and the numbers it embeds
Reason(kind, unit, a, b) == [kind |-> kind, unit |-> unit, a |-> a, b |-> b]

\* round(n / d) to the nearest integer, ties to even (d > 0): the "{mean:.2f}"
RoundHalfEven(n, d) ==
    LET q == n \div d
        r == n - q * d
    IN  IF 2 * r < d THEN q
        ELSE IF 2 * r > d THEN q + 1
        ELSE IF q % 2 = 0 THEN q ELSE q + 1

\* an eviction that drops the newest entry
EvictNewestFailure(failures) ==
    IF Len(failures) > max_recent_failures THEN PopLast(failures) ELSE failures

\* lines 95-97: keep only recent failures
EvictFailure(failures) ==
    IF Len(failures) > max_recent_failures THEN PopFirst(failures) ELSE failures

\* a counter that restarts at 1 instead of adding to the count so far
RecordRejectionRestarting(stats, sensor_id, value, reason) ==
    [rejected_count |-> DictSet(stats.rejected_count, sensor_id, 1),
     recent_failures |->
        EvictFailure(Append(stats.recent_failures,
            [sensor_id |-> sensor_id, value |-> value, reason |-> reason]))]

\* stats is [rejected_count, recent_failures]
record_rejection(stats, sensor_id, value, reason) ==
    [rejected_count |->
        DictSet(stats.rejected_count, sensor_id,
                DictGet(stats.rejected_count, sensor_id, 0) + 1),
     recent_failures |->
        EvictFailure(Append(stats.recent_failures,
            [sensor_id |-> sensor_id, value |-> value, reason |-> reason]))]

\* a rejection that leaves no record
RejectSilently(self, sensor_id, value, reason) == self

\* self with a rejection recorded
Reject(self, sensor_id, value, reason) ==
    [self EXCEPT !.stats = record_rejection(@, sensor_id, value, reason)]

(***************************************************************************)
(* SensorValidator: the checks.  Each returns [ok, self]: the verdict and  *)
(* the validator after the check's side effects.                           *)
(***************************************************************************)
\* a sentinel test that forgets the tolerance
IsExactModbusError(value) ==
    value.kind = "num" /\ value.v \in MODBUS_ERROR_VALUES

\* NaN and Inf compare False with everything the test tries
_is_modbus_error(value) ==
    /\ value.kind = "num"
    /\ \/ value.v \in MODBUS_ERROR_VALUES
       \/ \E error_val \in MODBUS_ERROR_VALUES :
              Abs(value.v - error_val) < ERROR_TOLERANCE

\* math.isfinite, for a float or an int within the range of a double
_is_finite(value) == value.kind = "num"

\* a range test that excludes the two ends
InOpenRange(x, range) == range[1] < x /\ x < range[2]

\* min_val <= value <= max_val
InRange(x, range) == range[1] <= x /\ x <= range[2]

\* a resolution that consults the built-in table before the custom ranges
RangeTierBuiltinFirst(self, sensor_id, unit) ==
    IF sensor_id \in DOMAIN SENSOR_SPECIFIC_RANGES
    THEN [tier |-> "sensor-specific", range |-> SENSOR_SPECIFIC_RANGES[sensor_id]]
    ELSE IF sensor_id \in DOMAIN self.custom_ranges
    THEN [tier |-> "custom", range |-> self.custom_ranges[sensor_id]]
    ELSE IF unit # NoUnit /\ unit \in DOMAIN DEFAULT_RANGES
    THEN [tier |-> "unit", range |-> DEFAULT_RANGES[unit]]
    ELSE [tier |-> "none", range |-> <<0, 0>>]

\* the tier _validate_range stops at, and its bounds
RangeTier(self, sensor_id, unit) ==
    IF sensor_id \in DOMAIN self.custom_ranges
    THEN [tier |-> "custom", range |-> self.custom_ranges[sensor_id]]
    ELSE IF sensor_id \in DOMAIN SENSOR_SPECIFIC_RANGES
    THEN [tier |-> "sensor-specific", range |-> SENSOR_SPECIFIC_RANGES[sensor_id]]
    ELSE IF unit # NoUnit /\ unit \in DOMAIN DEFAULT_RANGES
    THEN [tier |-> "unit", range |-> DEFAULT_RANGES[unit]]
    ELSE [tier |-> "none", range |-> <<0, 0>>]

_validate_range(self, sensor_id, value, unit) ==
    LET t == RangeTier(self, sensor_id, unit)
    IN  IF t.tier = "none" \/ InRange(value.v, t.range)
        THEN [ok |-> TRUE, self |-> self]
        ELSE [ok |-> FALSE,
              self |-> Reject(self, sensor_id, value,
                  Reason("Outside " \o t.tier \o " range",
                         IF t.tier = "unit" THEN unit ELSE NoUnit,
                         t.range[1], t.range[2]))]

\* a monotonic test that never rejects
NoRegression(value, last_value) == FALSE

\* value < last_value
Regressed(value, last_value) == value < last_value

\* a monotonic check that keeps one tracker for all the counters
MonotonicSharedTracker(self, sensor_id, value) ==
    IF sensor_id \notin MONOTONIC_INCREASING_SENSORS
    THEN [ok |-> TRUE, self |-> self]
    ELSE IF /\ "last" \in DOMAIN self._last_monotonic_values
            /\ Regressed(value.v, self._last_monotonic_values["last"])
    THEN [ok |-> FALSE,
          self |-> Reject(self, sensor_id, value,
              Reason("Monotonic sensor decreased", NoUnit,
                     self._last_monotonic_values["last"], value.v))]
    ELSE [ok |-> TRUE,
          self |-> [self EXCEPT !._last_monotonic_values =
                                    DictSet(@, "last", value.v)]]

\* a monotonic check that records the value it rejects as the last one
MonotonicTrackingRejected(self, sensor_id, value) ==
    IF sensor_id \notin MONOTONIC_INCREASING_SENSORS
    THEN [ok |-> TRUE, self |-> self]
    ELSE [ok |-> ~(/\ sensor_id \in DOMAIN self._last_monotonic_values
                   /\ Regressed(value.v, self._last_monotonic_values[sensor_id])),
          self |-> [(IF /\ sensor_id \in DOMAIN self._last_monotonic_values
                        /\ Regressed(value.v,
                                     self._last_monotonic_values[sensor_id])
                     THEN Reject(self, sensor_id, value,
                              Reason("Monotonic sensor decreased", NoUnit,
                                     self._last_monotonic_values[sensor_id],
                                     value.v))
                     ELSE self)
                    EXCEPT !._last_monotonic_values =
                               DictSet(@, sensor_id, value.v)]]

_validate_monotonic(self, sensor_id, value) ==
    IF sensor_id \notin MONOTONIC_INCREASING_SENSORS
    THEN [ok |-> TRUE, self |-> self]
    ELSE IF /\ sensor_id \in DOMAIN self._last_monotonic_values
            /\ Regressed(value.v, self._last_monotonic_values[sensor_id])
    THEN [ok |-> FALSE,
          self |-> Reject(self, sensor_id, value,
              Reason("Monotonic sensor decreased", NoUnit,
                     self._last_monotonic_values[sensor_id], value.v))]
    ELSE [ok |-> TRUE,
          self |-> [self EXCEPT !._last_monotonic_values =
                                    DictSet(@, sensor_id, value.v)]]

\* an evidence threshold of two values
TooShortTwo(history) == Len(history) < 2

\* len(history) < 3
TooShort(history) == Len(history) < 3

\* abs(mean) < 0.1, with mean = sum(history) / len(history)
NearZeroMean(history) == Abs(SeqSum(history)) < ZERO_MEAN_EPS * Len(history)

\* an absolute-range test that takes the range to be 0.1 at least
RangeOutlierWithFloor(history, x, sensitivity) ==
    Abs(x) * SENS_DEN >
        Max2(SeqMax(history) - SeqMin(history), ZERO_MEAN_EPS) * sensitivity
        + Max2(Abs(SeqMax(history)), Abs(SeqMin(history))) * SENS_DEN

\* abs(value) > range_val * sensitivity + max(abs(max_recent), abs(min_recent))
RangeOutlier(history, x, sensitivity) ==
    LET max_recent == SeqMax(history)
        min_recent == SeqMin(history)
        range_val  == max_recent - min_recent
    IN  Abs(x) * SENS_DEN >
            range_val * sensitivity
            + Max2(Abs(max_recent), Abs(min_recent)) * SENS_DEN

\* a mean-relative test that also fires at the threshold itself
MeanOutlierInclusive(history, x, sensitivity) ==
    Abs(x * Len(history) - SeqSum(history)) * SENS_DEN >=
        Abs(SeqSum(history)) * sensitivity

\* abs(value - mean) > abs(mean) * sensitivity, multiplied through by
\* len(history) and by the denominator of the sensitivity
MeanOutlier(history, x, sensitivity) ==
    Abs(x * Len(history) - SeqSum(history)) * SENS_DEN >
        Abs(SeqSum(history)) * sensitivity

\* an outlier test that also fires for a sensor with a rejection on record
OutlierOrRepeatOffender(self, sensor_id, x) ==
    /\ sensor_id \in DOMAIN self._value_history
    /\ ~TooShort(self._value_history[sensor_id])
    /\ IF DictGet(self.stats.rejected_count, sensor_id, 0) >= 1
       THEN TRUE
       ELSE IF NearZeroMean(self._value_history[sensor_id])
       THEN RangeOutlier(self._value_history[sensor_id], x, self.outlier_sensitivity)
       ELSE MeanOutlier(self._value_history[sensor_id], x, self.outlier_sensitivity)

\* an outlier test that never fires
NeverOutlier(self, sensor_id, x) == FALSE

\* the verdict of _validate_outlier without its side effect
IsOutlier(self, sensor_id, x) ==
    /\ sensor_id \in DOMAIN self._value_history
    /\ ~TooShort(self._value_history[sensor_id])
    /\ IF NearZeroMean(self._value_history[sensor_id])
       THEN RangeOutlier(self._value_history[sensor_id], x, self.outlier_sensitivity)
       ELSE MeanOutlier(self._value_history[sensor_id], x, self.outlier_sensitivity)

_validate_outlier(self, sensor_id, value) ==
    IF ~IsOutlier(self, sensor_id, value.v)
    THEN [ok |-> TRUE, self |-> self]
    ELSE LET history == self._value_history[sensor_id]
         IN  [ok |-> FALSE,
              self |-> Reject(self, sensor_id, value,
                  IF NearZeroMean(history)
                  THEN Reason("Outlier: too far from recent range", NoUnit,
                              SeqMin(history), SeqMax(history))
                  ELSE Reason("Outlier: deviates >5x from mean", NoUnit,
                              RoundHalfEven(SeqSum(history),
                                  (SCALE \div 100) * Len(history)), 0))]

\* a pipeline that runs the monotonic check before the range check
ValidateValueMonotonicFirst(self, sensor_id, value, sensor_metadata) ==
    IF value.kind = "None" THEN [ok |-> TRUE, self |-> self]
    ELSE IF ~IsNumeric(value) THEN [ok |-> TRUE, self |-> self]
    ELSE IF _is_modbus_error(value)
    THEN [ok |-> FALSE,
          self |-> Reject(self, sensor_id, value,
                          Reason("Modbus error value", NoUnit, 0, 0))]
    ELSE IF ~_is_finite(value)
    THEN [ok |-> FALSE,
          self |-> Reject(self, sensor_id, value,
                          Reason("Non-finite value (NaN or Inf)", NoUnit, 0, 0))]
    ELSE LET unit == _get_sensor_unit(sensor_id, sensor_metadata)
             m    == _validate_monotonic(self, sensor_id, value)
         IN  IF ~m.ok THEN m
             ELSE LET r == _validate_range(m.self, sensor_id, value, unit)
                  IN  IF ~r.ok THEN r
                      ELSE _validate_outlier(r.self, sensor_id, value)

_validate_value(self, sensor_id, value, sensor_metadata) ==
    IF value.kind = "None" THEN [ok |-> TRUE, self |-> self]
    ELSE IF ~IsNumeric(value) THEN [ok |-> TRUE, self |-> self]
    ELSE IF _is_modbus_error(value)
    THEN [ok |-> FALSE,
          self |-> Reject(self, sensor_id, value,
                          Reason("Modbus error value", NoUnit, 0, 0))]
    ELSE IF ~_is_finite(value)
    THEN [ok |-> FALSE,
          self |-> Reject(self, sensor_id, value,
                          Reason("Non-finite value (NaN or Inf)", NoUnit, 0, 0))]
    ELSE LET unit == _get_sensor_unit(sensor_id, sensor_metadata)
             r    == _validate_range(self, sensor_id, value, unit)
         IN  IF ~r.ok THEN r
             ELSE LET m == _validate_monotonic(r.self, sensor_id, value)
                  IN  IF ~m.ok THEN m
                      ELSE _validate_outlier(m.self, sensor_id, value)

\* an eviction that drops the newest value
EvictNewestValue(history) ==
    IF Len(history) > _max_history THEN PopLast(history) ELSE history

\* lines 385-387: keep only recent history
EvictValue(history) ==
    IF Len(history) > _max_history THEN PopFirst(history) ELSE history

\* an update that appends the value to the history of every sensor
UpdateEveryHistory(self, sensor_id, value) ==
    [self EXCEPT !._value_history =
        [k \in DOMAIN @ \cup {sensor_id} |->
            EvictValue(Append(DictGet(@, k, << >>), value.v))]]

_update_history(self, sensor_id, value) ==
    [self EXCEPT !._value_history =
        DictSet(@, sensor_id,
                EvictValue(Append(DictGet(@, sensor_id, << >>), value.v)))]

\* a loop that keeps the key of a rejected reading, with the value None
RECURSIVE LoopKeepingRejectedKeys(_, _, _, _, _)
LoopKeepingRejectedKeys(self, data, sensor_metadata, i, validated_data) ==
    IF i > Len(data)
    THEN [self |-> self, validated_data |-> validated_data]
    ELSE LET r == _validate_value(self, data[i][1], data[i][2], sensor_metadata)
         IN  IF r.ok
             THEN LoopKeepingRejectedKeys(
                      IF IsNumeric(data[i][2])
                      THEN _update_history(r.self, data[i][1], data[i][2])
                      ELSE r.self,
                      data, sensor_metadata, i + 1,
                      Append(validated_data, data[i]))
             ELSE LoopKeepingRejectedKeys(r.self, data, sensor_metadata, i + 1,
                      Append(validated_data, <<data[i][1], NoneValue>>))

\* the loop of validate_data from item i on; validated_data is the output so far
RECURSIVE ValidateLoop(_, _, _, _, _)
ValidateLoop(self, data, sensor_metadata, i, validated_data) ==
    IF i > Len(data)
    THEN [self |-> self, validated_data |-> validated_data]
    ELSE LET sensor_id == data[i][1]
             value     == data[i][2]
             r         == _validate_value(self, sensor_id, value, sensor_metadata)
         IN  IF r.ok
             THEN ValidateLoop(
                      IF IsNumeric(value)
                      THEN _update_history(r.self, sensor_id, value)
                      ELSE r.self,
                      data, sensor_metadata, i + 1,
                      Append(validated_data, data[i]))
             ELSE ValidateLoop(r.self, data, sensor_metadata, i + 1,
                               validated_data)

\* a validate_data that ignores enable_validation
ValidateAlways(self, data, sensor_metadata) ==
    ValidateLoop(self, data, sensor_metadata, 1, << >>)

\* validate_data: [self, validated_data]
validate_data(self, data, sensor_metadata) ==
    IF ~self.enable_validation
    THEN [self |-> self, validated_data |-> data]
    ELSE ValidateLoop(self, data, sensor_metadata, 1, << >>)

(***************************************************************************)
(* State                                                                   *)
(***************************************************************************)
VARIABLES
    enable_validation,       \* SensorValidator.enable_validation
    outlier_sensitivity,     \* SensorValidator.outlier_sensitivity, in halves
    custom_ranges,           \* SensorValidator.custom_ranges
    rejected_count,          \* ValidationStats.rejected_count
    recent_failures,         \* ValidationStats.recent_failures
    _value_history,          \* SensorValidator._value_history
    _last_monotonic_values,  \* SensorValidator._last_monotonic_values
    data,                    \* the batch of the last validate_data call
    sensor_metadata,         \* the metadata of the last validate_data call
    result,                  \* what the last validate_data call returned
    calls,                   \* validate_data calls so far
    accepted,                \* per sensor, every numeric value returned so far
    rejections,              \* every reading dropped so far, in order
    changes                  \* times the batch differed from the one before

config == <<enable_validation, outlier_sensitivity, custom_ranges>>

validator == <<rejected_count, recent_failures, _value_history, _last_monotonic_values>>

observed == <<data, sensor_metadata, result, calls, accepted, rejections, changes>>

vars == <<config, validator, observed>>

\* the validator object
Self ==
    [enable_validation      |-> enable_validation,
     outlier_sensitivity    |-> outlier_sensitivity,
     custom_ranges          |-> custom_ranges,
     stats                  |-> [rejected_count  |-> rejected_count,
                                 recent_failures |-> recent_failures],
     _value_history         |-> _value_history,
     _last_monotonic_values |-> _last_monotonic_values]

(***************************************************************************)
(* Inputs of the model                                                     *)
(***************************************************************************)
\* a custom range that is wider than the built-in one at the top and
\* narrower at the bottom, and one that contains the 16-bit sentinels but
\* not the lower part of the unit's range
SomeCustomRanges ==
    ("battery_soc" :> <<N(42), N(150)>>) @@ ("vbus" :> <<N(1000), N(70000)>>)

CustomRangeChoices == {EmptyDict, SomeCustomRanges}

\* metadata naming units other than the inferred ones for two sensors and
\* no unit for a third
SomeMetadata ==
    ("vbus" :> ("unit" :> "Hz")) @@ ("battery_soc" :> ("unit" :> "V"))
    @@ ("e_total" :> ("kind" :> "AC"))

MetadataChoices == {EmptyDict, SomeMetadata}

\* the keys of a batch, in order
Keys(d) == [i \in 1..Len(d) |-> d[i][1]]

IsDict(d) == \A i, j \in 1..Len(d) : i # j => d[i][1] # d[j][1]

HasKey(d, k) == \E i \in 1..Len(d) : d[i][1] = k

\* d[k], for a key of d
ValueOf(d, k) == d[CHOOSE i \in 1..Len(d) : d[i][1] = k][2]

(***************************************************************************)
(* Construction and validate_data                                          *)
(***************************************************************************)
Fresh ==
    /\ rejected_count = EmptyDict
    /\ recent_failures = << >>
    /\ _value_history = EmptyDict
    /\ _last_monotonic_values = EmptyDict

Init ==
    /\ enable_validation \in BOOLEAN
    /\ outlier_sensitivity = DEFAULT_SENSITIVITY
    /\ custom_ranges \in CustomRangeChoices
    /\ Fresh
    /\ data = << >>
    /\ sensor_metadata = EmptyDict
    /\ result = << >>
    /\ calls = 0
    /\ accepted = [s \in SensorIds |-> << >>]
    /\ rejections = << >>
    /\ changes = 0

\* the readings of d that the output out lacks, in the order of d
Dropped(d, out) == SelectSeq(d, LAMBDA item : ~HasKey(out, item[1]))

\* the ghost variables after a call that returned out for the batch d
Observe(d, m, out) ==
    /\ data' = d
    /\ sensor_metadata' = m
    /\ result' = out
    /\ calls' = calls + 1
    /\ accepted' =
          IF ~enable_validation THEN accepted
          ELSE [s \in SensorIds |->
                  IF HasKey(out, s) /\ IsNumeric(ValueOf(out, s))
                  THEN Append(accepted[s], ValueOf(out, s).v)
                  ELSE accepted[s]]
    /\ rejections' =
          IF ~enable_validation THEN rejections
          ELSE rejections \o
               [i \in 1..Len(Dropped(d, out)) |->
                   [sensor_id |-> Dropped(d, out)[i][1],
                    value     |-> Dropped(d, out)[i][2]]]

\* one call validate_data(d, m) with everything it does
Call(d, m) ==
    \E r \in {validate_data(Self, d, m)} :
        /\ enable_validation' = r.self.enable_validation
        /\ outlier_sensitivity' = r.self.outlier_sensitivity
        /\ custom_ranges' = r.self.custom_ranges
        /\ rejected_count' = r.self.stats.rejected_count
        /\ recent_failures' = r.self.stats.recent_failures
        /\ _value_history' = r.self._value_history
        /\ _last_monotonic_values' = r.self._last_monotonic_values
        /\ Observe(d, m, r.validated_data)

(***************************************************************************)
(* Spec: polls of up to two sensors, with and without metadata, under      *)
(* every configuration.                                                    *)
(***************************************************************************)
MaxCalls == 2

PollSensors == {"e_total", "battery_soc", "vbus"}

PollValues(sensor_id) ==
    CASE sensor_id = "e_total"     -> {Num(N(100)), Num(N(200000)), Inf(1)}
      [] sensor_id = "battery_soc" -> {Num(N(42)), Num(N(150)), Str(0)}
      [] sensor_id = "vbus"        -> {Num(N(500)), Num(N(65535))}

PollItems == {<<s, v>> : s \in PollSensors, v \in UNION {PollValues(t) : t \in PollSensors}}

Polls ==
    {d \in {<<a>> : a \in PollItems} \cup {<<a, b>> : a, b \in PollItems} :
        IsDict(d) /\ \A i \in 1..Len(d) : d[i][2] \in PollValues(d[i][1])}

ValidateData ==
    /\ calls < MaxCalls
    /\ \E d \in Polls, m \in MetadataChoices : Call(d, m)
    /\ UNCHANGED changes

Next == ValidateData

Spec == Init /\ [][Next]_vars

(***************************************************************************)
(* SpecSeq: an inverter that reports one sensor, the same one at every     *)
(* poll, long enough for the monotonic tracker and the outlier window to   *)
(* matter.  Validation is enabled.                                         *)
(***************************************************************************)
MaxCallsSeq == 5

SeqSensors == {"e_total", "battery_soc", "vbus"}

SeqValues(sensor_id) ==
    CASE sensor_id = "e_total" ->
            {Num(N(100)), Num(N(105)), Num(N(700)), Num(N(32767)),
             Num(N(-32768) + 1), NoneValue, Str(0)}
      [] sensor_id = "battery_soc" ->
            {Num(0), Num(N(1)), Num(N(42)), Num(N(100)), Num(N(150)), Bool(1)}
      [] sensor_id = "vbus" ->
            {Num(N(500)), Num(N(1500)), Num(N(65535)), Num(N(65535) + 1),
             Num(N(65535) + 2), Num(N(32768) - 1), NaN}

InitSeq == Init /\ enable_validation

ValidateOneSensor ==
    /\ calls < MaxCallsSeq
    /\ \E s \in SeqSensors :
          /\ IF calls = 0 THEN TRUE ELSE data[1][1] = s
          /\ \E v \in SeqValues(s) : Call(<< <<s, v>> >>, EmptyDict)
    /\ UNCHANGED changes

NextSeq == ValidateOneSensor

SpecSeq == InitSeq /\ [][NextSeq]_vars

(***************************************************************************)
(* SpecHist and SpecLog: long runs of an inverter whose single reading     *)
(* changes only a few times, long enough to fill the outlier window        *)
(* (SpecHist) and the recent-failure log (SpecLog).                        *)
(***************************************************************************)
MaxCallsHist == 12

MaxChangesHist == 2

HistValues == {Num(N(500)), Num(N(600)), Num(N(1500))}

MaxCallsLog == 51

MaxChangesLog == 1

LogValues == {Num(N(1500)), Num(N(65535)), Num(N(500))}

InitLong == Init /\ enable_validation /\ custom_ranges = EmptyDict

\* a poll of the one reading, which differs from the last poll's at most
\* maxChanges times
SteadyPoll(values, maxCalls, maxChanges) ==
    /\ calls < maxCalls
    /\ \E v \in values :
          \E d \in {<< <<"vbus", v>> >>} :
              /\ IF calls = 0 \/ d = data THEN TRUE ELSE changes < maxChanges
              /\ Call(d, EmptyDict)
              /\ changes' = IF calls = 0 \/ d = data THEN changes ELSE changes + 1

ValidateSteadyHist == SteadyPoll(HistValues, MaxCallsHist, MaxChangesHist)

NextHist == ValidateSteadyHist

SpecHist == InitLong /\ [][NextHist]_vars

ValidateSteadyLog == SteadyPoll(LogValues, MaxCallsLog, MaxChangesLog)

NextLog == ValidateSteadyLog

SpecLog == InitLong /\ [][NextLog]_vars

(***************************************************************************)
(* SpecOut: an inverter that reports one sensor, the same one at every     *)
(* poll, with readings around the thresholds of the outlier test, under    *)
(* two outlier sensitivities (0.5 and the default 5.0).  No custom ranges. *)
(***************************************************************************)
MaxCallsOut == 5

SensitivityChoices == {1, DEFAULT_SENSITIVITY}

OutSensors == {"e_total", "vbus", "battery_soc"}

\* e_total: a counter with a sentinel, a non-finite, two out-of-range and an
\* outlying reading; vbus: readings around a mean of 100; battery_soc:
\* readings of 0, 0.1, 0.6 and 1 around a mean below 0.1
OutValues(sensor_id) ==
    CASE sensor_id = "e_total" ->
            {Num(N(100)), Num(N(700)), Num(N(200000)), Num(N(-5)),
             Num(N(65535)), NaN}
      [] sensor_id = "vbus" ->
            {Num(N(100)), Num(N(102)), Num(N(98)), Num(N(150)), Num(N(600)),
             Num(N(700))}
      [] sensor_id = "battery_soc" ->
            {Num(0), Num(SCALE \div 10), Num(6 * (SCALE \div 10)), Num(N(1))}

InitOut ==
    /\ enable_validation = TRUE
    /\ outlier_sensitivity \in SensitivityChoices
    /\ custom_ranges = EmptyDict
    /\ Fresh
    /\ data = << >>
    /\ sensor_metadata = EmptyDict
    /\ result = << >>
    /\ calls = 0
    /\ accepted = [s \in SensorIds |-> << >>]
    /\ rejections = << >>
    /\ changes = 0

ValidateOutlierPoll ==
    /\ calls < MaxCallsOut
    /\ \E s \in OutSensors :
          /\ IF calls = 0 THEN TRUE ELSE data[1][1] = s
          /\ \E v \in OutValues(s) : Call(<< <<s, v>> >>, EmptyDict)
    /\ UNCHANGED changes

NextOut == ValidateOutlierPoll

SpecOut == InitOut /\ [][NextOut]_vars

(***************************************************************************)
(* SpecBatch: an inverter that reports up to three sensors per poll, two   *)
(* of them cumulative counters, in any insertion order, with and without   *)
(* metadata.  Validation is enabled, no custom ranges.                     *)
(***************************************************************************)
MaxCallsBatch == 2

BatchSensors == {"e_total", "h_total", "vbus"}

BatchValues(sensor_id) ==
    CASE sensor_id = "e_total" -> {Num(N(100)), Num(N(50))}
      [] sensor_id = "h_total" -> {Num(N(50))}
      [] sensor_id = "vbus"    -> {Num(N(500))}

BatchItems == {<<s, v>> : s \in BatchSensors, v \in UNION {BatchValues(t) : t \in BatchSensors}}

Batches ==
    {d \in UNION {[1..n -> BatchItems] : n \in 1..Cardinality(BatchSensors)} :
        IsDict(d) /\ \A i \in 1..Len(d) : d[i][2] \in BatchValues(d[i][1])}

ValidateBatch ==
    /\ calls < MaxCallsBatch
    /\ \E d \in Batches, m \in MetadataChoices : Call(d, m)
    /\ UNCHANGED changes

NextBatch == ValidateBatch

SpecBatch == InitLong /\ [][NextBatch]_vars

(***************************************************************************)
(* SpecZero: an inverter that reports one sensor, the same one at every    *)
(* poll, with readings of 0 and around it, under outlier sensitivities of  *)
(* -1.0, 0, 5.0 and 500.0.  No custom ranges.                              *)
(***************************************************************************)
MaxCallsZero == 6

ZeroSensitivityChoices == {-2, 0, DEFAULT_SENSITIVITY, 1000}

ZeroSensors == {"battery_soc", "h_total"}

\* 0, the smallest step above it (0.005), larger readings, and for the
\* counter without a range a negative one
ZeroValues(sensor_id) ==
    CASE sensor_id = "battery_soc" ->
            {Num(0), Num(1), Num(N(100)), Bool(1)}
      [] sensor_id = "h_total" ->
            {Num(0), Num(1), Num(N(1)), Num(N(-1))}

InitZero ==
    /\ enable_validation = TRUE
    /\ outlier_sensitivity \in ZeroSensitivityChoices
    /\ custom_ranges = EmptyDict
    /\ Fresh
    /\ data = << >>
    /\ sensor_metadata = EmptyDict
    /\ result = << >>
    /\ calls = 0
    /\ accepted = [s \in SensorIds |-> << >>]
    /\ rejections = << >>
    /\ changes = 0

ValidateAroundZero ==
    /\ calls < MaxCallsZero
    /\ \E s \in ZeroSensors :
          /\ IF calls = 0 THEN TRUE ELSE data[1][1] = s
          /\ \E v \in ZeroValues(s) : Call(<< <<s, v>> >>, EmptyDict)
    /\ UNCHANGED changes

NextZero == ValidateAroundZero

SpecZero == InitZero /\ [][NextZero]_vars

(***************************************************************************)
(* The vocabulary of the properties C1, C2, ... below.                     *)
(***************************************************************************)
Last(s) == s[Len(s)]

\* the last n elements of s (all of s if it has fewer)
LastN(s, n) == IF Len(s) <= n THEN s ELSE SubSeq(s, Len(s) - n + 1, Len(s))

NonDecreasing(s) == \A i, j \in 1..Len(s) : i <= j => s[i] <= s[j]

\* x is an error sentinel or less than 0.01 away from one
NearSentinel(x) ==
    \E e \in {65535, 32767, 32768, -32768} :
        Abs(x - e * SCALE) < SCALE \div 100

\* the bounds that apply to a sensor with the given unit: at most one pair
ResolvedBounds(sensor_id, unit) ==
    IF sensor_id \in DOMAIN custom_ranges
    THEN {custom_ranges[sensor_id]}
    ELSE IF sensor_id \in DOMAIN SENSOR_SPECIFIC_RANGES
    THEN {SENSOR_SPECIFIC_RANGES[sensor_id]}
    ELSE {DEFAULT_RANGES[u] : u \in {unit} \cap DOMAIN DEFAULT_RANGES}

WithinBounds(sensor_id, unit, x) ==
    \A b \in ResolvedBounds(sensor_id, unit) : b[1] <= x /\ x <= b[2]

\* the rolling history of a sensor before the step
HistoryOf(sensor_id) == DictGet(_value_history, sensor_id, << >>)

\* x is an outlier against the history h: with n = Len(h) >= 3 and
\* mean = total / n, either |mean| < 0.1 and |x| > (max - min) * sensitivity
\* + max(|max|, |min|), or |mean| >= 0.1 and |x - mean| > |mean| * sensitivity
OutlierAgainst(h, x) ==
    /\ Len(h) >= 3
    /\ LET total == SeqSum(h)
           hi    == SeqMax(h)
           lo    == SeqMin(h)
       IN  IF 10 * Abs(total) < SCALE * Len(h)
           THEN SENS_DEN * Abs(x) >
                    (hi - lo) * outlier_sensitivity
                    + SENS_DEN * Max2(Abs(hi), Abs(lo))
           ELSE SENS_DEN * Abs(Len(h) * x - total) >
                    Abs(total) * outlier_sensitivity

\* a finite number, no sentinel, inside the resolved range of its sensor
Plausible(sensor_id, value, metadata) ==
    /\ value.kind = "num"
    /\ ~NearSentinel(value.v)
    /\ WithinBounds(sensor_id, _get_sensor_unit(sensor_id, metadata), value.v)

\* the entries the step added to the recent-failure log that are about sensor_id
NewFailures(sensor_id) ==
    SelectSeq(LastN(recent_failures', Len(rejections') - Len(rejections)),
              LAMBDA f : f.sensor_id = sensor_id)

(***************************************************************************)
(* C1                                                                      *)
(***************************************************************************)
\* C1 as stated: with validation enabled, every plausible value (finite,
\* inside the resolved range, no sentinel) of a sensor outside the monotonic
\* set is in the output of validate_data, whatever the validator's state.
C1_PlausibleIsAccepted ==
    [][enable_validation =>
        \A i \in 1..Len(data') :
            (/\ data'[i][1] \notin MONOTONIC_INCREASING_SENSORS
             /\ Plausible(data'[i][1], data'[i][2], sensor_metadata'))
            => HasKey(result', data'[i][1])]_vars

\* C1 amended: with validation enabled, every plausible value of a sensor
\* outside the monotonic set that is not an outlier against the sensor's
\* rolling history is in the output of validate_data.
C1_PlausibleNonOutlierIsAccepted ==
    [][enable_validation =>
        \A i \in 1..Len(data') :
            (/\ data'[i][1] \notin MONOTONIC_INCREASING_SENSORS
             /\ Plausible(data'[i][1], data'[i][2], sensor_metadata')
             /\ ~OutlierAgainst(HistoryOf(data'[i][1]), data'[i][2].v))
            => HasKey(result', data'[i][1])]_vars

\* a fourth battery_soc reading went through the outlier test and was accepted
C1_Witness ==
    /\ enable_validation
    /\ data = << <<"battery_soc", Num(N(100))>> >>
    /\ result = data
    /\ Len(accepted["battery_soc"]) >= 4
    /\ accepted["battery_soc"][1] = N(42)

(***************************************************************************)
(* C2                                                                      *)
(***************************************************************************)
\* C2 as stated: for a monotonic sensor whose most recently accepted value
\* is V, a plausible value >= V that is no outlier against the rolling
\* history is accepted, and a monotonic rejection is recorded only for a
\* value strictly below V.
C2_NoRegressionIsAccepted ==
    [][enable_validation =>
        \A i \in 1..Len(data') :
            (/\ data'[i][1] \in MONOTONIC_INCREASING_SENSORS
             /\ accepted[data'[i][1]] # << >>
             /\ data'[i][2].kind = "num")
            => /\ (/\ data'[i][2].v >= Last(accepted[data'[i][1]])
                   /\ Plausible(data'[i][1], data'[i][2], sensor_metadata')
                   /\ ~OutlierAgainst(HistoryOf(data'[i][1]), data'[i][2].v))
                  => HasKey(result', data'[i][1])
               /\ \A k \in 1..Len(NewFailures(data'[i][1])) :
                      NewFailures(data'[i][1])[k].reason.kind
                          = "Monotonic sensor decreased"
                      => data'[i][2].v < Last(accepted[data'[i][1]])]_vars

(***************************************************************************)
(* C3                                                                      *)
(***************************************************************************)
\* C3: for every monotonic sensor the accepted values are non-decreasing:
\* a value strictly below one accepted earlier is absent from the output and
\* raises the sensor's rejection counter by one.
C3_AcceptedNeverRegresses ==
    /\ [](\A s \in SensorIds \cap MONOTONIC_INCREASING_SENSORS :
              NonDecreasing(accepted[s]))
    /\ [][enable_validation =>
            \A i \in 1..Len(data') :
                (/\ data'[i][1] \in MONOTONIC_INCREASING_SENSORS
                 /\ data'[i][2].kind = "num"
                 /\ \E k \in 1..Len(accepted[data'[i][1]]) :
                        data'[i][2].v < accepted[data'[i][1]][k])
                => /\ ~HasKey(result', data'[i][1])
                   /\ DictGet(rejected_count', data'[i][1], 0)
                          = DictGet(rejected_count, data'[i][1], 0) + 1]_vars

\* e_total was accepted at 105 and the reading 100 that followed was dropped
C3_Witness ==
    /\ enable_validation
    /\ accepted["e_total"] # << >>
    /\ Last(accepted["e_total"]) = N(105)
    /\ data = << <<"e_total", Num(N(100))>> >>
    /\ result = << >>
    /\ Last(recent_failures).reason.kind = "Monotonic sensor decreased"

(***************************************************************************)
(* C4                                                                      *)
(***************************************************************************)
\* C4: a validator constructed with enable_validation = false returns every
\* batch as it came, and its histories, trackers, rejection counters and
\* recent-failure log stay as they were at construction.
C4_DisabledIsIdentity ==
    ~enable_validation => /\ calls > 0 => result = data
                          /\ Fresh

\* a disabled validator has returned a sentinel and a non-finite value
C4_Witness ==
    /\ ~enable_validation
    /\ calls >= 2
    /\ data = << <<"vbus", Num(N(65535))>>, <<"e_total", Inf(1)>> >>
    /\ result = data

(***************************************************************************)
(* C5                                                                      *)
(***************************************************************************)
\* C5: with validation enabled the output holds exactly the entries of the
\* batch whose verdict is accept, each with the value it came with: its keys
\* are among the input's and no value is coerced or clamped.
C5_OutputIsTheAcceptedEntries ==
    [][enable_validation =>
        /\ \A j \in 1..Len(result') : \E i \in 1..Len(data') : result'[j] = data'[i]
        /\ \A i \in 1..Len(data') :
               HasKey(result', data'[i][1])
               <=> _validate_value(Self, data'[i][1], data'[i][2],
                                   sensor_metadata').ok
        /\ IsDict(result')]_vars

\* a batch of two readings of which one was returned and one dropped
C5_Witness ==
    /\ enable_validation
    /\ Len(data) = 2
    /\ Len(result) = 1
    /\ calls >= 2

(***************************************************************************)
(* C6                                                                      *)
(***************************************************************************)
\* C6: with validation enabled, an entry whose value is null or not a
\* number (text, boolean) is in the output with its value unchanged,
\* whatever the sensor, the configured ranges and the validator's state.
C6_NonNumericPassesThrough ==
    [][enable_validation =>
        \A i \in 1..Len(data') :
            data'[i][2].kind \in {"None", "str", "bool"}
            => \E j \in 1..Len(result') : result'[j] = data'[i]]_vars

\* a monotonic sensor with a tracker and an active outlier window passed None
C6_Witness ==
    /\ enable_validation
    /\ Len(HistoryOf("e_total")) >= 3
    /\ "e_total" \in DOMAIN _last_monotonic_values
    /\ data = << <<"e_total", NoneValue>> >>
    /\ result = data

(***************************************************************************)
(* C7                                                                      *)
(***************************************************************************)
\* the one entry of the recent-failure log that a step added for the reading
\* (sensor_id, value) has the given reason
RejectedFor(sensor_id, value, reason) ==
    /\ ~HasKey(result', sensor_id)
    /\ NewFailures(sensor_id) =
           << [sensor_id |-> sensor_id, value |-> value, reason |-> reason] >>

\* C7: with validation enabled a number that is an error sentinel, or less
\* than 0.01 away from one, is rejected as a Modbus error for every sensor
\* and in every state, whatever range would contain it.  For a fresh
\* validator and the unit V: 65535 is rejected as a sentinel, 500 is
\* accepted, 1500 is rejected as outside the unit range 0..1000.
C7_SentinelIsRejected ==
    [][enable_validation =>
        /\ \A i \in 1..Len(data') :
               (data'[i][2].kind = "num" /\ NearSentinel(data'[i][2].v))
               => RejectedFor(data'[i][1], data'[i][2],
                              Reason("Modbus error value", NoUnit, 0, 0))
        /\ (/\ calls = 0
            /\ custom_ranges = EmptyDict
            /\ Len(data') = 1
            /\ data'[1][1] = "vbus"
            /\ _get_sensor_unit("vbus", sensor_metadata') = "V")
           => /\ data'[1][2] = Num(65535 * SCALE)
                 => RejectedFor("vbus", data'[1][2],
                                Reason("Modbus error value", NoUnit, 0, 0))
              /\ data'[1][2] = Num(500 * SCALE) => result' = data'
              /\ data'[1][2] = Num(1500 * SCALE)
                 => RejectedFor("vbus", data'[1][2],
                                Reason("Outside unit range", "V",
                                       0, 1000 * SCALE))]_vars

\* a value 0.005 above 65535 was rejected by a validator that has history
\* for the sensor and a custom range that contains the value
C7_Witness ==
    /\ enable_validation
    /\ "vbus" \in DOMAIN custom_ranges
    /\ HistoryOf("vbus") # << >>
    /\ data = << <<"vbus", Num(N(65535) + 1)>> >>
    /\ result = << >>
    /\ Last(recent_failures).reason.kind = "Modbus error value"

(***************************************************************************)
(* C8                                                                      *)
(***************************************************************************)
\* the name of the tier whose bound applies
ResolvedTier(sensor_id) ==
    IF sensor_id \in DOMAIN custom_ranges THEN "custom"
    ELSE IF sensor_id \in DOMAIN SENSOR_SPECIFIC_RANGES THEN "sensor-specific"
    ELSE "unit"

IsRangeReason(reason) ==
    reason.kind \in {"Outside custom range", "Outside sensor-specific range",
                     "Outside unit range"}

\* C8: the range check applies the one inclusive bound of highest precedence
\* (custom range, else built-in sensor range, else range of the resolved
\* unit, else none): a finite non-sentinel number outside that bound is
\* rejected with that tier's reason, and one inside it (ends included) gets
\* no range rejection, whatever the lower tiers say.  A fresh validator
\* rejects battery_soc 150 and accepts 42.
C8_RangePrecedence ==
    [][enable_validation =>
        /\ \A i \in 1..Len(data') :
               LET sensor_id == data'[i][1]
                   value     == data'[i][2]
                   unit      == _get_sensor_unit(sensor_id, sensor_metadata')
               IN  (value.kind = "num" /\ ~NearSentinel(value.v))
                   => IF WithinBounds(sensor_id, unit, value.v)
                      THEN \A k \in 1..Len(NewFailures(sensor_id)) :
                               ~IsRangeReason(NewFailures(sensor_id)[k].reason)
                      ELSE \E b \in ResolvedBounds(sensor_id, unit) :
                               RejectedFor(sensor_id, value,
                                   Reason("Outside " \o ResolvedTier(sensor_id)
                                              \o " range",
                                          IF ResolvedTier(sensor_id) = "unit"
                                          THEN unit ELSE NoUnit,
                                          b[1], b[2]))
        /\ (calls = 0 /\ custom_ranges = EmptyDict)
           => \A i \in 1..Len(data') :
                  /\ data'[i] = <<"battery_soc", Num(150 * SCALE)>>
                     => ~HasKey(result', "battery_soc")
                  /\ data'[i] = <<"battery_soc", Num(42 * SCALE)>>
                     => HasKey(result', "battery_soc")]_vars

\* under a custom range 42..150, battery_soc 150 (the custom maximum, outside
\* the built-in 0..100) was accepted and 42 (the custom minimum) before it
C8_Witness ==
    /\ enable_validation
    /\ "battery_soc" \in DOMAIN custom_ranges
    /\ accepted["battery_soc"] = <<N(42), N(150)>>
    /\ HasKey(result, "battery_soc")
    /\ sensor_metadata = SomeMetadata

(***************************************************************************)
(* C9                                                                      *)
(***************************************************************************)
\* C9: the recent-failure log holds at most 50 entries and is exactly the
\* most recent min(n, 50) of the n rejections so far, in the order they
\* occurred: at capacity the oldest entry is the one evicted.
C9_LogIsMostRecentRejections ==
    /\ Len(recent_failures) <= 50
    /\ [i \in 1..Len(recent_failures) |->
           [sensor_id |-> recent_failures[i].sensor_id,
            value     |-> recent_failures[i].value]]
       = LastN(rejections, 50)

\* 51 rejections happened and the log holds two different readings
C9_Witness ==
    /\ Len(rejections) = 51
    /\ Len(recent_failures) = 50
    /\ recent_failures[1].value # recent_failures[50].value

(***************************************************************************)
(* C10                                                                     *)
(***************************************************************************)
\* C10: the rolling history of each sensor is exactly the most recent
\* min(k, 10) of its k accepted numeric values, in acceptance order: never
\* longer than 10, oldest evicted first, rejected values never appended.
C10_HistoryIsMostRecentAccepted ==
    \A s \in SensorIds :
        /\ s \in DOMAIN _value_history <=> accepted[s] # << >>
        /\ HistoryOf(s) = LastN(accepted[s], 10)
        /\ Len(HistoryOf(s)) <= 10

\* eleven values were accepted, a rejection happened, and the window holds
\* two different values
C10_Witness ==
    /\ Len(accepted["vbus"]) = 11
    /\ rejections # << >>
    /\ Len(HistoryOf("vbus")) = 10
    /\ HistoryOf("vbus")[1] # HistoryOf("vbus")[10]

(***************************************************************************)
(* C11                                                                     *)
(***************************************************************************)
\* the rejection counter of a sensor (0 while the sensor has none)
CountOf(counts, sensor_id) == DictGet(counts, sensor_id, 0)

\* C11: the per-sensor rejection counters never decrease and are never
\* reset: a call leaves every counter as it was, except that it adds exactly
\* one to the counter of each sensor whose reading it dropped.
C11_CountersOnlyCountUp ==
    [][/\ DOMAIN rejected_count \subseteq DOMAIN rejected_count'
       /\ \A s \in SensorIds :
              CountOf(rejected_count', s) =
                  CountOf(rejected_count, s)
                  + (IF enable_validation /\ HasKey(data', s)
                        /\ ~HasKey(result', s)
                     THEN 1 ELSE 0)]_vars

\* vbus was rejected in two calls and e_total in the first only; the second
\* call accepted its other reading
C11_Witness ==
    /\ enable_validation
    /\ CountOf(rejected_count, "vbus") = 2
    /\ CountOf(rejected_count, "e_total") = 1
    /\ HasKey(data, "vbus") /\ ~HasKey(data, "e_total")
    /\ Len(data) = 2
    /\ Len(result) = 1

(***************************************************************************)
(* C12                                                                     *)
(***************************************************************************)
\* C12 as stated: a call that drops the reading of a monotonic sensor leaves
\* that sensor's tracker as it was, so the tracker of a sensor always holds
\* the last value accepted for it.
C12_RejectedNeverUpdatesTracker ==
    /\ [][enable_validation =>
            \A i \in 1..Len(data') :
                (/\ data'[i][1] \in MONOTONIC_INCREASING_SENSORS
                 /\ IsNumeric(data'[i][2])
                 /\ ~HasKey(result', data'[i][1]))
                => /\ data'[i][1] \in DOMAIN _last_monotonic_values'
                      <=> data'[i][1] \in DOMAIN _last_monotonic_values
                   /\ DictGet(_last_monotonic_values', data'[i][1], 0)
                          = DictGet(_last_monotonic_values, data'[i][1], 0)]_vars
    /\ [](\A s \in DOMAIN _last_monotonic_values :
              /\ accepted[s] # << >>
              /\ _last_monotonic_values[s] = Last(accepted[s]))

(***************************************************************************)
(* C13                                                                     *)
(***************************************************************************)
\* C13: the value stored in the monotonic tracker of a sensor never
\* decreases: every call leaves it unchanged or replaces it with a value
\* greater than or equal to the one before, and never removes it.
C13_TrackerNeverDecreases ==
    [][\A s \in DOMAIN _last_monotonic_values :
           /\ s \in DOMAIN _last_monotonic_values'
           /\ _last_monotonic_values'[s] >= _last_monotonic_values[s]]_vars

\* the tracker of e_total rose from 100 over 105 to 700, and the call that
\* followed dropped the reading 100 and left it at 700
C13_Witness ==
    /\ accepted["e_total"] = <<N(100), N(105), N(700)>>
    /\ data = << <<"e_total", Num(N(100))>> >>
    /\ result = << >>
    /\ _last_monotonic_values["e_total"] = N(700)

(***************************************************************************)
(* C14                                                                     *)
(***************************************************************************)
\* the first check, in the order sentinel, finiteness, range, monotonic,
\* outlier, that the numeric reading fails in the state before the step
\* ("none" if it passes all five)
FirstFailingCheck(sensor_id, value, metadata) ==
    IF value.kind = "num" /\ NearSentinel(value.v) THEN "sentinel"
    ELSE IF value.kind # "num" THEN "finiteness"
    ELSE IF ~WithinBounds(sensor_id, _get_sensor_unit(sensor_id, metadata),
                          value.v)
    THEN "range"
    ELSE IF /\ sensor_id \in MONOTONIC_INCREASING_SENSORS
            /\ sensor_id \in DOMAIN _last_monotonic_values
            /\ value.v < _last_monotonic_values[sensor_id]
    THEN "monotonic"
    ELSE IF OutlierAgainst(HistoryOf(sensor_id), value.v) THEN "outlier"
    ELSE "none"

\* the check a recorded reason belongs to
CheckOfReason(reason) ==
    CASE reason.kind = "Modbus error value"            -> "sentinel"
      [] reason.kind = "Non-finite value (NaN or Inf)" -> "finiteness"
      [] IsRangeReason(reason)                         -> "range"
      [] reason.kind = "Monotonic sensor decreased"    -> "monotonic"
      [] OTHER                                         -> "outlier"

\* the monotonic tracker of the sensor is the same after the step as before
TrackerUntouched(sensor_id) ==
    /\ sensor_id \in DOMAIN _last_monotonic_values'
       <=> sensor_id \in DOMAIN _last_monotonic_values
    /\ DictGet(_last_monotonic_values', sensor_id, 0)
           = DictGet(_last_monotonic_values, sensor_id, 0)

\* C14: the checks run in the order sentinel, finiteness, range, monotonic,
\* outlier and stop at the first that fails: a numeric reading is dropped
\* exactly when it fails one of them, it then records exactly one rejection,
\* whose reason is that of the earliest failing check, and a reading that
\* fails before the monotonic check has passed leaves the tracker untouched.
C14_FirstFailingCheckDecides ==
    [][enable_validation =>
        \A i \in 1..Len(data') :
            IsNumeric(data'[i][2]) =>
                LET sensor_id == data'[i][1]
                    check == FirstFailingCheck(sensor_id, data'[i][2],
                                               sensor_metadata')
                IN  IF check = "none"
                    THEN /\ HasKey(result', sensor_id)
                         /\ NewFailures(sensor_id) = << >>
                    ELSE /\ ~HasKey(result', sensor_id)
                         /\ Len(NewFailures(sensor_id)) = 1
                         /\ CheckOfReason(NewFailures(sensor_id)[1].reason)
                                = check
                         /\ CountOf(rejected_count', sensor_id)
                                = CountOf(rejected_count, sensor_id) + 1
                         /\ check # "outlier" => TrackerUntouched(sensor_id)]_vars

\* e_total, with the tracker at 100 and an active outlier window, reported
\* 200000: out of range, no regression, an outlier.  The one reason recorded
\* is the range's and the tracker is still 100
C14_Witness ==
    /\ Len(HistoryOf("e_total")) >= 3
    /\ data = << <<"e_total", Num(N(200000))>> >>
    /\ result = << >>
    /\ Last(recent_failures).reason.kind = "Outside unit range"
    /\ CountOf(rejected_count, "e_total") = 1
    /\ _last_monotonic_values["e_total"] = N(100)

(***************************************************************************)
(* C15                                                                     *)
(***************************************************************************)
IsOutlierReason(reason) ==
    reason.kind \in {"Outlier: too far from recent range",
                     "Outlier: deviates >5x from mean"}

\* the reading passes the sentinel, finiteness, range and monotonic checks
\* in the state before the step
ReachesOutlierCheck(sensor_id, value, metadata) ==
    /\ Plausible(sensor_id, value, metadata)
    /\ (/\ sensor_id \in MONOTONIC_INCREASING_SENSORS
        /\ sensor_id \in DOMAIN _last_monotonic_values)
       => value.v >= _last_monotonic_values[sensor_id]

\* C15: the outlier check never rejects a value of a sensor whose rolling
\* history holds fewer than 3 values: a sensor with at most 2 accepted
\* numeric values accepts every value that passes the sentinel, finiteness,
\* range and monotonic checks, however far it is from the earlier ones.
C15_NoOutlierBeforeThreeValues ==
    [][enable_validation =>
        \A i \in 1..Len(data') :
            LET sensor_id == data'[i][1]
            IN  /\ Len(HistoryOf(sensor_id)) < 3
                   => \A k \in 1..Len(NewFailures(sensor_id)) :
                          ~IsOutlierReason(NewFailures(sensor_id)[k].reason)
                /\ (/\ Len(accepted[sensor_id]) <= 2
                    /\ ReachesOutlierCheck(sensor_id, data'[i][2],
                                           sensor_metadata'))
                   => HasKey(result', sensor_id)]_vars

\* after 100 and 100, e_total 700 was accepted as the third value, under the
\* sensitivity 0.5 that makes it an outlier as soon as the test applies
C15_Witness ==
    /\ outlier_sensitivity = 1
    /\ accepted["e_total"] = <<N(100), N(100), N(700)>>
    /\ HistoryOf("e_total") = <<N(100), N(100), N(700)>>
    /\ result = << <<"e_total", Num(N(700))>> >>

(***************************************************************************)
(* C16                                                                     *)
(***************************************************************************)
\* C16: for a sensor with at least 3 values in its rolling history, a value
\* that reaches the outlier check is rejected if and only if it is an
\* outlier against that history: |value| > (max - min) * sensitivity
\* + max(|max|, |min|) when |mean| < 0.1, |value - mean| > |mean| *
\* sensitivity otherwise.  With the history 100, 102, 98 and sensitivity
\* 5.0, 700 is rejected and 150 is accepted.
C16_OutlierFormula ==
    [][enable_validation =>
        \A i \in 1..Len(data') :
            LET sensor_id == data'[i][1]
                value     == data'[i][2]
            IN  (/\ Len(HistoryOf(sensor_id)) >= 3
                 /\ ReachesOutlierCheck(sensor_id, value, sensor_metadata'))
                => /\ ~HasKey(result', sensor_id)
                      <=> OutlierAgainst(HistoryOf(sensor_id), value.v)
                   /\ (/\ HistoryOf(sensor_id)
                              = <<100 * SCALE, 102 * SCALE, 98 * SCALE>>
                       /\ outlier_sensitivity = 5 * SENS_DEN)
                      => /\ value.v = 700 * SCALE => ~HasKey(result', sensor_id)
                         /\ value.v = 150 * SCALE => HasKey(result', sensor_id)]_vars

\* with the history 100, 102, 98 and sensitivity 5.0, vbus 700 was rejected
\* and then 150 accepted
C16_Witness ==
    /\ outlier_sensitivity = DEFAULT_SENSITIVITY
    /\ accepted["vbus"] = <<N(100), N(102), N(98), N(150)>>
    /\ rejections = << [sensor_id |-> "vbus", value |-> Num(N(700))] >>
    /\ result = << <<"vbus", Num(N(150))>> >>

(***************************************************************************)
(* C17                                                                     *)
(***************************************************************************)
\* the batch d with its entries in every order
Reorderings(d) ==
    {[i \in 1..Len(d) |-> d[p[i]]] : p \in Permutations(1..Len(d))}

\* the entries of a batch, without their order
Entries(d) == {d[i] : i \in 1..Len(d)}

\* C17: the verdicts of one validate_data call do not depend on the order
\* in which the entries of the batch are evaluated: from the same state,
\* every order yields the same set of accepted entries and the same rolling
\* histories, monotonic trackers and per-sensor rejection counters.
C17_OrderWithinBatchIsIrrelevant ==
    [][enable_validation =>
        \A d \in Reorderings(data') :
            \A r \in {validate_data(Self, d, sensor_metadata')} :
                /\ Entries(r.validated_data) = Entries(result')
                /\ r.self._value_history = _value_history'
                /\ r.self._last_monotonic_values = _last_monotonic_values'
                /\ r.self.stats.rejected_count = rejected_count'
                /\ Entries(r.self.stats.recent_failures)
                       = Entries(recent_failures')]_vars

\* a validator with trackers for both counters took a batch of three whose
\* first reading was accepted and whose other two were dropped, vbus
\* before e_total
C17_Witness ==
    /\ calls = 2
    /\ Len(data) = 3
    /\ data[2][1] = "vbus" /\ data[3][1] = "e_total"
    /\ result = << data[1] >>
    /\ DOMAIN _last_monotonic_values = {"e_total", "h_total"}
    /\ Len(recent_failures) = 2
    /\ recent_failures[1].sensor_id = "vbus"
    /\ recent_failures[2].reason.kind = "Monotonic sensor decreased"

(***************************************************************************)
(* C18                                                                     *)
(***************************************************************************)
\* statistics other than the validator's own: none at all, and counters of
\* 3 for every sensor with a full log
OtherStats ==
    {[rejected_count |-> EmptyDict, recent_failures |-> << >>],
     [rejected_count |-> [s \in SensorIds |-> 3],
      recent_failures |->
          [i \in 1..max_recent_failures |->
              [sensor_id |-> "vbus", value |-> Num(N(65535)),
               reason |-> Reason("Modbus error value", NoUnit, 0, 0)]]]}

\* C18: the verdicts do not depend on the statistics: a validator with the
\* same configuration, rolling histories and monotonic trackers but other
\* rejection counters and another recent-failure log returns the same output
\* for the batch and ends with the same histories and trackers.
C18_VerdictsIgnoreStatistics ==
    [][\A stats \in OtherStats :
           \A r \in {validate_data([Self EXCEPT !.stats = stats], data',
                                   sensor_metadata')} :
               /\ r.validated_data = result'
               /\ r.self._value_history = _value_history'
               /\ r.self._last_monotonic_values = _last_monotonic_values']_vars

\* a validator that had rejected a vbus reading accepted four others, the
\* last of them past the outlier test
C18_Witness ==
    /\ CountOf(rejected_count, "vbus") = 1
    /\ recent_failures # << >>
    /\ accepted["vbus"] = <<N(500), N(500), N(500), N(500)>>
    /\ result = << <<"vbus", Num(N(500))>> >>

(***************************************************************************)
(* C19                                                                     *)
(***************************************************************************)
\* the sum of all the per-sensor counters
RECURSIVE SumCounts(_)
SumCounts(counts) ==
    IF DOMAIN counts = {} THEN 0
    ELSE LET k == CHOOSE k \in DOMAIN counts : TRUE
         IN  counts[k] + SumCounts([j \in DOMAIN counts \ {k} |-> counts[j]])

Min2(a, b) == IF a <= b THEN a ELSE b

\* the rolling history of the sensor is the same after the step as before
HistoryUntouched(sensor_id) ==
    /\ sensor_id \in DOMAIN _value_history'
       <=> sensor_id \in DOMAIN _value_history
    /\ DictGet(_value_history', sensor_id, << >>) = HistoryOf(sensor_id)

\* C19: with validation enabled every entry of a batch has exactly one
\* outcome.  Either it is in the output, its sensor's counter is unchanged
\* and, if it is a number, it is appended once to its sensor's history; or
\* it is absent, its sensor's counter is one higher and its history is
\* unchanged.  The call adds one log entry per dropped entry and no other,
\* output entries + rejections recorded = input entries, and the counters
\* always sum to the number of entries dropped so far.
C19_ExactlyOneOutcome ==
    /\ [](SumCounts(rejected_count) = Len(rejections))
    /\ [][enable_validation =>
            /\ \A i \in 1..Len(data') :
                   LET sensor_id == data'[i][1]
                       value     == data'[i][2]
                   IN  IF HasKey(result', sensor_id)
                       THEN /\ ValueOf(result', sensor_id) = value
                            /\ CountOf(rejected_count', sensor_id)
                                   = CountOf(rejected_count, sensor_id)
                            /\ IF IsNumeric(value)
                               THEN DictGet(_value_history', sensor_id, << >>)
                                        = LastN(Append(HistoryOf(sensor_id),
                                                       value.v), 10)
                               ELSE HistoryUntouched(sensor_id)
                       ELSE /\ CountOf(rejected_count', sensor_id)
                                   = CountOf(rejected_count, sensor_id) + 1
                            /\ HistoryUntouched(sensor_id)
            /\ Len(result') + SumCounts(rejected_count')
                   - SumCounts(rejected_count) = Len(data')
            /\ Len(recent_failures')
                   = Min2(50, Len(recent_failures) + Len(data') - Len(result'))
            /\ LET new == LastN(recent_failures', Len(data') - Len(result'))
               IN  [k \in 1..Len(new) |-> <<new[k].sensor_id, new[k].value>>]
                       = Dropped(data', result')]_vars

\* a batch of a number that was appended to a history of one value, and a
\* sentinel that was dropped
C19_Witness ==
    /\ enable_validation
    /\ data = << <<"e_total", Num(N(100))>>, <<"vbus", Num(N(65535))>> >>
    /\ result = << <<"e_total", Num(N(100))>> >>
    /\ HistoryOf("e_total") = <<N(100), N(100)>>
    /\ SumCounts(rejected_count) = 2
    /\ Len(rejections) = 2

(***************************************************************************)
(* C20                                                                     *)
(***************************************************************************)
\* the dict d without the keys outside S
Restrict(d, S) == [k \in DOMAIN d \cap S |-> d[k]]

\* a validator of the same configuration that knows of the sensor only:
\* its history, its tracker and its counter, and an empty log
KnowingOnly(sensor_id) ==
    [Self EXCEPT
        !.stats = [rejected_count  |-> Restrict(rejected_count, {sensor_id}),
                   recent_failures |-> << >>],
        !._value_history = Restrict(_value_history, {sensor_id}),
        !._last_monotonic_values =
            Restrict(_last_monotonic_values, {sensor_id})]

\* C20: the state of the validator is isolated per sensor.  A call leaves
\* the history, tracker and counter of every sensor outside the batch
\* unchanged, and gives each entry of the batch the verdict, history,
\* tracker and counter that a validator knowing only that sensor (same
\* configuration, that sensor's metadata) gives it when it comes alone.
C20_StateIsPerSensor ==
    [][enable_validation =>
        /\ \A s \in SensorIds :
               ~HasKey(data', s)
               => /\ HistoryUntouched(s)
                  /\ TrackerUntouched(s)
                  /\ s \in DOMAIN rejected_count' <=> s \in DOMAIN rejected_count
                  /\ CountOf(rejected_count', s) = CountOf(rejected_count, s)
        /\ \A i \in 1..Len(data') :
               \A r \in {validate_data(KnowingOnly(data'[i][1]), << data'[i] >>,
                                       Restrict(sensor_metadata', {data'[i][1]}))} :
                   /\ HasKey(result', data'[i][1]) <=> r.validated_data # << >>
                   /\ Restrict(_value_history', {data'[i][1]})
                          = r.self._value_history
                   /\ Restrict(_last_monotonic_values', {data'[i][1]})
                          = r.self._last_monotonic_values
                   /\ Restrict(rejected_count', {data'[i][1]})
                          = r.self.stats.rejected_count]_vars

\* with a history for vbus and trackers for both counters, a call with
\* e_total alone, and metadata about the other sensors, dropped it
C20_Witness ==
    /\ calls = 2
    /\ data = << <<"e_total", Num(N(50))>> >>
    /\ result = << >>
    /\ CountOf(rejected_count, "e_total") = 1
    /\ HistoryOf("vbus") = <<N(500)>>
    /\ _last_monotonic_values = ("e_total" :> N(100)) @@ ("h_total" :> N(50))
    /\ sensor_metadata = SomeMetadata

(***************************************************************************)
(* C21                                                                     *)
(***************************************************************************)
\* a history of at least 3 values, all of them 0
AllZero(h) == Len(h) >= 3 /\ \A k \in 1..Len(h) : h[k] = 0

\* C21: zero lock-in.  Once the rolling history of a sensor holds at least
\* 3 values and all of them are 0, every nonzero number submitted for the
\* sensor is dropped and leaves the history unchanged, whatever the outlier
\* sensitivity; the only number the sensor can still accept is 0, and its
\* history stays all zero.
C21_ZeroLockIn ==
    /\ [][\A s \in SensorIds :
              AllZero(HistoryOf(s))
              => AllZero(DictGet(_value_history', s, << >>))]_vars
    /\ [][\A i \in 1..Len(data') :
              LET sensor_id == data'[i][1]
                  value     == data'[i][2]
              IN  (AllZero(HistoryOf(sensor_id)) /\ IsNumeric(value))
                  => IF value = Num(0)
                     THEN HasKey(result', sensor_id)
                          => DictGet(_value_history', sensor_id, << >>)
                                 = LastN(Append(HistoryOf(sensor_id), 0), 10)
                     ELSE /\ ~HasKey(result', sensor_id)
                          /\ HistoryUntouched(sensor_id)
                          /\ CountOf(rejected_count', sensor_id)
                                 = CountOf(rejected_count, sensor_id) + 1]_vars

\* under the sensitivity 500.0, battery_soc went 0, 0, 0, had two nonzero
\* readings dropped, one of them 0.005, and then accepted another 0
C21_Witness ==
    /\ outlier_sensitivity = 1000
    /\ accepted["battery_soc"] = <<0, 0, 0, 0>>
    /\ HistoryOf("battery_soc") = <<0, 0, 0, 0>>
    /\ Len(rejections) = 2
    /\ rejections[1].value = Num(1)
    /\ result = << <<"battery_soc", Num(0)>> >>

====
